---- MODULE Spec2Model ----
(***************************************************************************)
(* The session / compile / submit pipeline of src/App.tsx.                 *)
(*                                                                         *)
(* The component's React state and its AbortController ref are the         *)
(* variables.  Every event handler is one action.  The two asynchronous    *)
(* handlers (handleCompileAndReview, handleFinalSubmit) are split at their *)
(* awaits: the synchronous prefix is one action, and every continuation    *)
(* that runs when an awaited promise settles is one action, so that any    *)
(* operator event can happen while a promise is pending.                   *)
(***************************************************************************)
EXTENDS Integers, Sequences, FiniteSets, TLC

\* ------------------------------------------------------------------ bounds
MaxTasks == 2        \* async handler invocations that may be pending together
MaxFiles == 2        \* longest file list the operator builds in the pipeline
MaxPicked == 2       \* File objects the operator picks from in the pipeline
MaxFileObj == 5      \* File objects of the file-list specification
MaxBatch == 2        \* longest batch of the file-list specification
MaxList == 3         \* longest file list of the file-list specification
MaxName == 3         \* longest session name of the session specification

\* ------------------------------------------------------------ small helpers
SeqsUpTo(S, n) == UNION {[1..k -> S] : k \in 0..n}

\* The batches a file input delivers: up to n distinct File objects of S.
Batches(S, n) ==
  {b \in SeqsUpTo(S, n) : Len(b) > 0 /\ \A j, k \in 1..Len(b) : j # k => b[j] # b[k]}

\* ------------------------------------------------------- the File objects
\* A File is an object with an identity (the number), a name and a size.
\* Files 1 and 2 differ in name, file 3 has the name and size of file 1, and
\* the files from 4 on share a size that differs from that of file 1.
FileObjs == 1..MaxFileObj

Picked == 1..MaxPicked

FileName(o) == IF o = 2 THEN "b.pdf" ELSE "a.pdf"

FileSize(o) == IF o >= 4 THEN 20 ELSE 10

\* The pages pdf-lib finds in the document of file o, in document order.
PageCount(o) == CASE o % 3 = 1 -> 2 [] o % 3 = 2 -> 3 [] OTHER -> 1

Pages(o) == [k \in 1..PageCount(o) |-> [doc |-> o, page |-> k]]

\* ------------------------------------------------------------- the values
\* Strings the operator types are sequences of characters; "" is << >>.
EmptyName == << >>

SessionNames == {EmptyName, <<"Q", " ", " ", "S">>}

\* The characters of the session names of the session specification: a
\* letter and two kinds of whitespace.
NameChars == {"Q", " ", "\t"}

TypedNames == SeqsUpTo(NameChars, MaxName) \ {EmptyName}

\* compiledPdfBlob: null, or a Blob holding the serialized pages.
NullBlob == [null |-> TRUE, pages |-> << >>]

MkBlob(pages) == [null |-> FALSE, pages |-> pages]

\* uploadStatus: { type, message }; a message is the list of the parts of
\* its template literal, '' is << >>.
NoStatus == [type |-> "null", message |-> << >>]

ErrorStatus(msg) == [type |-> "error", message |-> msg]

SuccessStatus == [type |-> "success", message |-> <<"Upload successful! Your merged PDF was sent.">>]

SubmissionCancelled == ErrorStatus(<<"Submission cancelled.">>)

UnknownProcessingError == ErrorStatus(<<"An unknown error occurred during file processing.">>)

ProcessingError(m) == ErrorStatus(<<"Failed to process files: ", m>>)

ParseMessages == {"No PDF header found"}

\* What the endpoint may answer when the response is not ok.
NotOkResponses == {[ok |-> FALSE, status |-> "500", statusText |-> "Internal Server Error"]}

BodyTexts == {"oops"}

NetworkMessages == {"Failed to fetch"}

\* Mutant of UploadFailed: the Error thrown leaves out the body text.
UploadFailedNoBody(r, text) == <<"Upload failed: ", r.status, " ", r.statusText>>

UploadFailed(r, text) == <<"Upload failed: ", r.status, " ", r.statusText, ". ", text>>

\* sessionName.replace(/\s+/g, '_'): every maximal run of whitespace becomes
\* one '_'.
IsSpace(c) == c \in {" ", "\t", "\n"}

\* Mutant of ReplaceWhitespace: replace(/\s/g, '_'), one '_' for each
\* whitespace character.
ReplaceEachWhitespace(s) == [k \in 1..Len(s) |-> IF IsSpace(s[k]) THEN "_" ELSE s[k]]

RECURSIVE ReplaceWhitespace(_)
ReplaceWhitespace(s) ==
  IF s = << >> THEN << >>
  ELSE IF IsSpace(Head(s))
       THEN IF Len(s) > 1 /\ IsSpace(s[2])
            THEN ReplaceWhitespace(Tail(s))
            ELSE <<"_">> \o ReplaceWhitespace(Tail(s))
       ELSE <<Head(s)>> \o ReplaceWhitespace(Tail(s))

CompiledFileName(name) == ReplaceWhitespace(name) \o <<"_compiled.pdf">>

\* ------------------------------------------------------------------ state
VARIABLES
  sessionName,          \* useState<string>('')
  files,                \* useState<File[]>([])
  isProcessing,         \* useState<boolean>(false)
  uploadStatus,         \* useState<UploadStatus>
  isPreviewOpen,        \* useState<boolean>(false)
  compiledPdfBlob,      \* useState<Blob | null>(null)
  abortControllerRef,   \* useRef<AbortController | null>: 0 is null
  aborted,              \* the AbortControllers whose signal.aborted is true
  tasks,                \* the pending async handler invocations, by the
                        \* AbortController each one created
  console               \* the messages written with console.log

vars == <<sessionName, files, isProcessing, uploadStatus, isPreviewOpen,
          compiledPdfBlob, abortControllerRef, aborted, tasks, console>>

\* The AbortControllers that can be alive together: one per pending task.
Ctrl == 1..MaxTasks

\* A pending invocation: where it is suspended (pc), and the values its
\* closure captured when the handler was called.
NoTask == [pc |-> "none", files |-> << >>, sessionName |-> EmptyName,
           i |-> 0, merged |-> << >>, formData |-> << >>, response |-> << >>]

CompilePcs == {"create", "read", "load", "copy", "save"}

SubmitPcs == {"fetch", "text"}

InFlight == {c \in Ctrl : tasks[c].pc # "none"}

\* new AbortController(): an object that no pending task holds.  The
\* controller of a finished task is unreachable once the ref is overwritten,
\* so its number is used again.
FreshCtrl == CHOOSE c \in Ctrl : tasks[c].pc = "none" /\ \A d \in Ctrl : (tasks[d].pc = "none" => c <= d)

\* The signals still observable once the ref holds the new controller c.
AbortedAfterNew(c) == {x \in aborted : x # c /\ tasks[x].pc # "none"}

\* The async function returns: its closure is dropped.  Its controller stays
\* observable only while abortControllerRef.current points to it.
TaskEnds(c) ==
  /\ tasks' = [tasks EXCEPT ![c] = NoTask]
  /\ aborted' = IF c = abortControllerRef THEN aborted ELSE aborted \ {c}

Init ==
  /\ sessionName = EmptyName
  /\ files = << >>
  /\ isProcessing = FALSE
  /\ uploadStatus = NoStatus
  /\ isPreviewOpen = FALSE
  /\ compiledPdfBlob = NullBlob
  /\ abortControllerRef = 0
  /\ aborted = {}
  /\ tasks = [c \in Ctrl |-> NoTask]
  /\ console = {}

\* ------------------------------------------------- synchronous handlers
\* onChange={(e) => setSessionName(e.target.value)}
setSessionName(v) ==
  /\ sessionName' = v
  /\ UNCHANGED <<files, isProcessing, uploadStatus, isPreviewOpen,
                 compiledPdfBlob, abortControllerRef, aborted, tasks, console>>

\* Mutant of SameNameAndSize: the comparison looks at the name only.
SameNameOnly(a, b) == FileName(a) = FileName(b)

\* existingFile.name === newFile.name && existingFile.size === newFile.size
SameNameAndSize(a, b) == FileName(a) = FileName(b) /\ FileSize(a) = FileSize(b)

UniqueNewFiles(prevFiles, newFiles) ==
  LET NotInPrev(n) == ~ \E k \in 1..Len(prevFiles) : SameNameAndSize(prevFiles[k], n)
  IN SelectSeq(newFiles, NotInPrev)

FilesAdded(prevFiles, newFiles) == prevFiles \o UniqueNewFiles(prevFiles, newFiles)

handleFilesAdded(newFiles) ==
  /\ files' = FilesAdded(files, newFiles)
  /\ UNCHANGED <<sessionName, isProcessing, uploadStatus, isPreviewOpen,
                 compiledPdfBlob, abortControllerRef, aborted, tasks, console>>

\* Mutant of FileRemoved: the filter compares name and size, not identity.
FileRemovedByNameAndSize(prevFiles, fileToRemove) ==
  LET Other(f) == ~SameNameAndSize(f, fileToRemove) IN SelectSeq(prevFiles, Other)

\* prevFiles.filter(file => file !== fileToRemove)
FileRemoved(prevFiles, fileToRemove) ==
  LET Other(f) == f # fileToRemove IN SelectSeq(prevFiles, Other)

handleRemoveFile(fileToRemove) ==
  /\ Len(files) > 0
  /\ files' = FileRemoved(files, fileToRemove)
  /\ UNCHANGED <<sessionName, isProcessing, uploadStatus, isPreviewOpen,
                 compiledPdfBlob, abortControllerRef, aborted, tasks, console>>

\* The Toast is rendered only while uploadStatus.type is set.
handleToastClose ==
  /\ uploadStatus.type # "null"
  /\ uploadStatus' = NoStatus
  /\ UNCHANGED <<sessionName, files, isProcessing, isPreviewOpen,
                 compiledPdfBlob, abortControllerRef, aborted, tasks, console>>

\* The PreviewModal is rendered only while isPreviewOpen && compiledPdfBlob.
ModalRendered == isPreviewOpen /\ ~compiledPdfBlob.null

\* Mutant of handleClosePreview: the close also clears the status notice.
handleClosePreviewClearsStatus ==
  /\ ModalRendered
  /\ isPreviewOpen' = FALSE
  /\ compiledPdfBlob' = NullBlob
  /\ uploadStatus' = NoStatus
  /\ UNCHANGED <<sessionName, files, isProcessing,
                 abortControllerRef, aborted, tasks, console>>

\* Mutant of handleClosePreview: the close keeps the artifact.
handleClosePreviewKeepsBlob ==
  /\ isPreviewOpen
  /\ isPreviewOpen' = FALSE
  /\ UNCHANGED <<sessionName, files, isProcessing, uploadStatus, compiledPdfBlob,
                 abortControllerRef, aborted, tasks, console>>

handleClosePreview ==
  /\ ModalRendered
  /\ isPreviewOpen' = FALSE
  /\ compiledPdfBlob' = NullBlob
  /\ UNCHANGED <<sessionName, files, isProcessing, uploadStatus,
                 abortControllerRef, aborted, tasks, console>>

\* Mutant of AbortedByReset: Reset does not abort the current controller.
AbortedByResetNoAbort(ref, ab) == ab

\* abortControllerRef.current?.abort()
AbortedByReset(ref, ab) == IF ref = 0 THEN ab ELSE ab \cup {ref}

handleReset ==
  /\ aborted' = AbortedByReset(abortControllerRef, aborted)
  /\ sessionName' = EmptyName
  /\ files' = << >>
  /\ isProcessing' = FALSE
  /\ isPreviewOpen' = FALSE
  /\ compiledPdfBlob' = NullBlob
  /\ uploadStatus' = NoStatus
  /\ UNCHANGED <<abortControllerRef, tasks, console>>

\* ------------------------------------------------ handleCompileAndReview
\* Mutant of CompileGuard: the session name is not checked.
CompileGuardNoName == Len(files) # 0 /\ ~isProcessing

\* if (!sessionName || files.length === 0 || isProcessing) return;
CompileGuard == sessionName # EmptyName /\ Len(files) # 0 /\ ~isProcessing

\* The synchronous prefix, up to `await PDFDocument.create()`.
handleCompileAndReview ==
  \/ /\ ~CompileGuard
     /\ UNCHANGED vars
  \/ /\ CompileGuard
     /\ Cardinality(InFlight) < MaxTasks
     /\ LET c == FreshCtrl IN
          /\ abortControllerRef' = c
          /\ aborted' = AbortedAfterNew(c)
          /\ tasks' = [tasks EXCEPT ![c] =
                         [NoTask EXCEPT !.pc = "create", !.files = files,
                                        !.sessionName = sessionName]]
     /\ isProcessing' = TRUE
     /\ uploadStatus' = NoStatus
     /\ UNCHANGED <<sessionName, files, isPreviewOpen, compiledPdfBlob, console>>

\* Mutant of Finally: the flag is cleared whether or not the signal is aborted.
FinallyUnconditional(c) == isProcessing' = FALSE

\* Mutant of Finally: the finally reads the signal of the controller the ref
\* holds now, not the signal the handler captured.
FinallyCurrentRef(c) ==
  isProcessing' = IF abortControllerRef \in aborted THEN isProcessing ELSE FALSE

\* Mutant of Finally: there is no finally block, the flag stays as it is.
FinallyMissing(c) == isProcessing' = isProcessing

\* finally { if (!signal.aborted) setIsProcessing(false); }
Finally(c) == isProcessing' = IF c \in aborted THEN isProcessing ELSE FALSE

\* catch (error) for an AbortError: console.log, nothing else.
AbortLogged == console' = console \cup {"File processing was aborted."}

\* Mutant of NextIteration: the catch does not tell the AbortError apart, and
\* shows it like any other Error.
NextIterationSurfaced(c, t) ==
  IF t.i > Len(t.files)
  THEN /\ tasks' = [tasks EXCEPT ![c] = [t EXCEPT !.pc = "save"]]
       /\ UNCHANGED <<sessionName, files, isProcessing, uploadStatus, isPreviewOpen,
                      compiledPdfBlob, abortControllerRef, aborted, console>>
  ELSE IF c \in aborted
  THEN /\ uploadStatus' = ProcessingError("Aborted by user")
       /\ Finally(c)
       /\ TaskEnds(c)
       /\ UNCHANGED <<sessionName, files, isPreviewOpen, compiledPdfBlob,
                      abortControllerRef, console>>
  ELSE /\ tasks' = [tasks EXCEPT ![c] = [t EXCEPT !.pc = "read"]]
       /\ UNCHANGED <<sessionName, files, isProcessing, uploadStatus, isPreviewOpen,
                      compiledPdfBlob, abortControllerRef, aborted, console>>

\* The top of the for-of loop, entered with the task's record t (its index i
\* already on the file to process): past the last file the loop is left and
\* mergedPdf.save() is awaited; otherwise signal.aborted is polled, and the
\* AbortError it throws is caught, logged and followed by the finally.
NextIteration(c, t) ==
  IF t.i > Len(t.files)
  THEN /\ tasks' = [tasks EXCEPT ![c] = [t EXCEPT !.pc = "save"]]
       /\ UNCHANGED <<sessionName, files, isProcessing, uploadStatus, isPreviewOpen,
                      compiledPdfBlob, abortControllerRef, aborted, console>>
  ELSE IF c \in aborted
  THEN /\ AbortLogged
       /\ Finally(c)
       /\ TaskEnds(c)
       /\ UNCHANGED <<sessionName, files, uploadStatus, isPreviewOpen,
                      compiledPdfBlob, abortControllerRef>>
  ELSE /\ tasks' = [tasks EXCEPT ![c] = [t EXCEPT !.pc = "read"]]
       /\ UNCHANGED <<sessionName, files, isProcessing, uploadStatus, isPreviewOpen,
                      compiledPdfBlob, abortControllerRef, aborted, console>>

\* PDFDocument.create() resolved: the loop starts on the first file.
CreateResolved(c) ==
  /\ tasks[c].pc = "create"
  /\ NextIteration(c, [tasks[c] EXCEPT !.i = 1])

\* readFileAsArrayBuffer(file) resolved: PDFDocument.load is awaited.
ReadResolved(c) ==
  /\ tasks[c].pc = "read"
  /\ tasks' = [tasks EXCEPT ![c].pc = "load"]
  /\ UNCHANGED <<sessionName, files, isProcessing, uploadStatus, isPreviewOpen,
                 compiledPdfBlob, abortControllerRef, aborted, console>>

\* Mutant of CompileFailed: the finally is missing.
CompileFailedNoFinally(c, status) ==
  /\ uploadStatus' = status
  /\ TaskEnds(c)
  /\ UNCHANGED <<sessionName, files, isProcessing, isPreviewOpen, compiledPdfBlob,
                 abortControllerRef, console>>

\* catch (error) for anything but an AbortError, then the finally.
CompileFailed(c, status) ==
  /\ uploadStatus' = status
  /\ Finally(c)
  /\ TaskEnds(c)
  /\ UNCHANGED <<sessionName, files, isPreviewOpen, compiledPdfBlob,
                 abortControllerRef, console>>

\* reader.onerror = reject: the promise rejects with the error event, which
\* is not an Error.
ReadRejected(c) ==
  /\ tasks[c].pc = "read"
  /\ CompileFailed(c, UnknownProcessingError)

\* PDFDocument.load resolved: copyPages is awaited.
LoadResolved(c) ==
  /\ tasks[c].pc = "load"
  /\ tasks' = [tasks EXCEPT ![c].pc = "copy"]
  /\ UNCHANGED <<sessionName, files, isProcessing, uploadStatus, isPreviewOpen,
                 compiledPdfBlob, abortControllerRef, aborted, console>>

\* PDFDocument.load threw an Error with message m.
LoadRejected(c, m) ==
  /\ tasks[c].pc = "load"
  /\ CompileFailed(c, ProcessingError(m))

\* Mutant of PagesAdded: the copied pages go in front of the merged ones.
PagesAddedInFront(merged, file) == Pages(file) \o merged

\* copyPages resolved: every copied page is added, in order, and the loop
\* goes to the next file.
PagesAdded(merged, file) == merged \o Pages(file)

CopyResolved(c) ==
  /\ tasks[c].pc = "copy"
  /\ LET t == tasks[c] IN
       NextIteration(c, [t EXCEPT !.merged = PagesAdded(t.merged, t.files[t.i]),
                                  !.i = t.i + 1])

\* mergedPdf.save() resolved: the Blob is stored and the preview opened.
SaveResolved(c) ==
  /\ tasks[c].pc = "save"
  /\ compiledPdfBlob' = MkBlob(tasks[c].merged)
  /\ isPreviewOpen' = TRUE
  /\ Finally(c)
  /\ TaskEnds(c)
  /\ UNCHANGED <<sessionName, files, uploadStatus, abortControllerRef, console>>

\* ----------------------------------------------------- handleFinalSubmit
\* if (!compiledPdfBlob || !sessionName || isProcessing) return;
SubmitGuard == ~compiledPdfBlob.null /\ sessionName # EmptyName /\ ~isProcessing

\* formData: the sessionName field and the file with its derived name.
FormData(name, blob) ==
  [sessionName |-> name, fileName |-> CompiledFileName(name), file |-> blob]

\* The synchronous prefix, up to `await fetch(...)`.  The handler is the
\* onSubmit of the PreviewModal.
handleFinalSubmit ==
  /\ ModalRendered
  /\ \/ /\ ~SubmitGuard
        /\ UNCHANGED vars
     \/ /\ SubmitGuard
        /\ Cardinality(InFlight) < MaxTasks
        /\ LET c == FreshCtrl IN
             /\ abortControllerRef' = c
             /\ aborted' = AbortedAfterNew(c)
             /\ tasks' = [tasks EXCEPT ![c] =
                            [NoTask EXCEPT !.pc = "fetch",
                                           !.sessionName = sessionName,
                                           !.formData = <<FormData(sessionName, compiledPdfBlob)>>]]
        /\ isProcessing' = TRUE
        /\ UNCHANGED <<sessionName, files, uploadStatus, isPreviewOpen,
                       compiledPdfBlob, console>>

\* Mutant of FetchOk: the file list is not cleared.
FetchOkKeepsFiles(c) ==
  /\ tasks[c].pc = "fetch"
  /\ c \notin aborted
  /\ uploadStatus' = SuccessStatus
  /\ sessionName' = EmptyName
  /\ isPreviewOpen' = FALSE
  /\ compiledPdfBlob' = NullBlob
  /\ Finally(c)
  /\ TaskEnds(c)
  /\ UNCHANGED <<files, abortControllerRef, console>>

\* fetch resolved with an ok response: the success branch, then the finally.
FetchOk(c) ==
  /\ tasks[c].pc = "fetch"
  /\ c \notin aborted
  /\ uploadStatus' = SuccessStatus
  /\ sessionName' = EmptyName
  /\ files' = << >>
  /\ isPreviewOpen' = FALSE
  /\ compiledPdfBlob' = NullBlob
  /\ Finally(c)
  /\ TaskEnds(c)
  /\ UNCHANGED <<abortControllerRef, console>>

\* fetch resolved with a response that is not ok: response.text() is awaited.
FetchNotOk(c, r) ==
  /\ tasks[c].pc = "fetch"
  /\ c \notin aborted
  /\ tasks' = [tasks EXCEPT ![c].pc = "text", ![c].response = <<r>>]
  /\ UNCHANGED <<sessionName, files, isProcessing, uploadStatus, isPreviewOpen,
                 compiledPdfBlob, abortControllerRef, aborted, console>>

\* catch (error) of handleFinalSubmit, then the finally.
SubmitFailed(c, status) ==
  /\ uploadStatus' = status
  /\ Finally(c)
  /\ TaskEnds(c)
  /\ UNCHANGED <<sessionName, files, isPreviewOpen, compiledPdfBlob,
                 abortControllerRef, console>>

\* response.text() resolved: the Error thrown carries status and body.
TextResolved(c, text) ==
  /\ tasks[c].pc = "text"
  /\ c \notin aborted
  /\ SubmitFailed(c, ErrorStatus(UploadFailed(tasks[c].response[1], text)))

\* Mutant of FetchRejected: a transport failure is reported as a
\* cancellation.
FetchRejectedAsCancelled(c, m) ==
  /\ tasks[c].pc \in SubmitPcs
  /\ c \notin aborted
  /\ SubmitFailed(c, SubmissionCancelled)

\* The request fails in transport: fetch (or the read of the body) rejects
\* with a TypeError whose message is m.
FetchRejected(c, m) ==
  /\ tasks[c].pc \in SubmitPcs
  /\ c \notin aborted
  /\ SubmitFailed(c, ErrorStatus(<<m>>))

\* Mutant of AbortStatus: the AbortError is shown by its own message, like
\* any other Error.
AbortStatusGeneric == ErrorStatus(<<"The user aborted a request.">>)

\* catch (error) for an AbortError: the notice set.
AbortStatus == SubmissionCancelled

\* The signal given to fetch is aborted: the pending promise (the fetch, or
\* the read of the response body) rejects with an AbortError DOMException.

FetchAborted(c) ==
  /\ tasks[c].pc \in SubmitPcs
  /\ c \in aborted
  /\ SubmitFailed(c, AbortStatus)

\* ------------------------------------------------------------------ next
Next ==
  \/ \E v \in SessionNames : setSessionName(v)
  \/ \E f \in Picked : Len(files) < MaxFiles /\ handleFilesAdded(<<f>>)
  \/ \E f \in Picked : handleRemoveFile(f)
  \/ handleToastClose
  \/ handleClosePreview
  \/ handleReset
  \/ handleCompileAndReview
  \/ handleFinalSubmit
  \/ \E c \in Ctrl : CreateResolved(c)
  \/ \E c \in Ctrl : ReadResolved(c)
  \/ \E c \in Ctrl : ReadRejected(c)
  \/ \E c \in Ctrl : LoadResolved(c)
  \/ \E c \in Ctrl, m \in ParseMessages : LoadRejected(c, m)
  \/ \E c \in Ctrl : CopyResolved(c)
  \/ \E c \in Ctrl : SaveResolved(c)
  \/ \E c \in Ctrl : FetchOk(c)
  \/ \E c \in Ctrl, r \in NotOkResponses : FetchNotOk(c, r)
  \/ \E c \in Ctrl, text \in BodyTexts : TextResolved(c, text)
  \/ \E c \in Ctrl, m \in NetworkMessages : FetchRejected(c, m)
  \/ \E c \in Ctrl : FetchAborted(c)

Spec == Init /\ [][Next]_vars

\* The steps of the pending task of controller c: each is the settling of the
\* promise the handler awaits.
TaskStep(c) ==
  \/ CreateResolved(c)
  \/ ReadResolved(c)
  \/ ReadRejected(c)
  \/ LoadResolved(c)
  \/ \E m \in ParseMessages : LoadRejected(c, m)
  \/ CopyResolved(c)
  \/ SaveResolved(c)
  \/ FetchOk(c)
  \/ \E r \in NotOkResponses : FetchNotOk(c, r)
  \/ \E text \in BodyTexts : TextResolved(c, text)
  \/ \E m \in NetworkMessages : FetchRejected(c, m)
  \/ FetchAborted(c)

\* Every promise a handler awaits (pdf-lib, the FileReader, fetch, the body
\* of the response) is eventually settled, and its continuation then runs.
Fairness == \A c \in Ctrl : WF_vars(TaskStep(c))

FairSpec == Init /\ [][Next]_vars /\ Fairness

\* ------------------------------------------- the file list on its own
\* The handlers of the session's name and file list alone, over more File
\* objects and longer batches.
NextFiles ==
  \/ \E v \in SessionNames : setSessionName(v)
  \/ \E newFiles \in Batches(FileObjs, MaxBatch) :
        Len(files) + Len(newFiles) <= MaxList /\ handleFilesAdded(newFiles)
  \/ \E f \in FileObjs : handleRemoveFile(f)
  \/ handleReset

SpecFiles == Init /\ [][NextFiles]_vars

\* One session from its inputs to the submission: the operator has typed a
\* session name and added files, then compiles, looks at the preview, closes
\* it or submits.
InitSession ==
  /\ sessionName \in TypedNames
  /\ files \in Batches(FileObjs, MaxList)
  /\ isProcessing = FALSE
  /\ uploadStatus = NoStatus
  /\ isPreviewOpen = FALSE
  /\ compiledPdfBlob = NullBlob
  /\ abortControllerRef = 0
  /\ aborted = {}
  /\ tasks = [c \in Ctrl |-> NoTask]
  /\ console = {}

NextSession ==
  \/ handleCompileAndReview
  \/ \E c \in Ctrl : CreateResolved(c)
  \/ \E c \in Ctrl : ReadResolved(c)
  \/ \E c \in Ctrl : LoadResolved(c)
  \/ \E c \in Ctrl : CopyResolved(c)
  \/ \E c \in Ctrl : SaveResolved(c)
  \/ handleClosePreview
  \/ handleFinalSubmit
  \/ \E c \in Ctrl : FetchOk(c)

SpecSession == InitSession /\ [][NextSession]_vars

\* ------------------------------------------------------------ the claims
\* A pending compile (submission) whose signal Reset has aborted.
CancelledCompile(c) == tasks[c].pc \in CompilePcs /\ c \in aborted

CancelledSubmit(c) == tasks[c].pc \in SubmitPcs /\ c \in aborted

\* C1: once Reset has aborted the signal of a pending compile, no step of
\* that compile stores an artifact, opens the preview, sets the status
\* notice or changes the processing flag.
C1_CancelledCompileMutatesNothing ==
  [][\A c \in Ctrl :
       (CancelledCompile(c) /\ tasks'[c] # tasks[c]) =>
         /\ compiledPdfBlob' = compiledPdfBlob
         /\ isPreviewOpen' = isPreviewOpen
         /\ uploadStatus' = uploadStatus
         /\ isProcessing' = isProcessing]_vars

\* C2 as stated: the completion of a submission that Reset cancelled changes
\* neither the session name, the file list, the artifact, the preview nor
\* the status notice.
C2_CancelledSubmitMutatesNothing ==
  [][\A c \in Ctrl :
       (CancelledSubmit(c) /\ tasks'[c].pc = "none") =>
         /\ sessionName' = sessionName
         /\ files' = files
         /\ compiledPdfBlob' = compiledPdfBlob
         /\ isPreviewOpen' = isPreviewOpen
         /\ uploadStatus' = uploadStatus]_vars

\* C2 as amended: the completion of a submission that Reset cancelled leaves
\* the session name, the file list, the artifact, the preview and the
\* processing flag as they are, and sets the status notice to the error
\* "Submission cancelled.".
C2_CancelledSubmitSetsOnlyNotice ==
  [][\A c \in Ctrl :
       (CancelledSubmit(c) /\ tasks'[c].pc = "none") =>
         /\ sessionName' = sessionName
         /\ files' = files
         /\ compiledPdfBlob' = compiledPdfBlob
         /\ isPreviewOpen' = isPreviewOpen
         /\ isProcessing' = isProcessing
         /\ uploadStatus' = SubmissionCancelled]_vars

\* A submission was cancelled by Reset and has completed: everything Reset
\* cleared is still clear, and the notice is the cancellation message.
C2_Witness ==
  /\ uploadStatus = SubmissionCancelled
  /\ sessionName = EmptyName /\ files = << >>
  /\ compiledPdfBlob = NullBlob /\ ~isPreviewOpen /\ ~isProcessing
  /\ InFlight = {}

\* C3: Reset is enabled in every state, and every Reset step ends with the
\* session name and file list empty, the processing flag false, the preview
\* closed, no artifact, no status notice, and the controller that was
\* current (if any) aborted.
C3_ResetClearsEverything ==
  /\ [](ENABLED handleReset)
  /\ [][handleReset =>
          /\ sessionName' = EmptyName
          /\ files' = << >>
          /\ isProcessing' = FALSE
          /\ isPreviewOpen' = FALSE
          /\ compiledPdfBlob' = NullBlob
          /\ uploadStatus' = NoStatus
          /\ (abortControllerRef # 0 => abortControllerRef \in aborted')]_vars

\* Reset has hit a pending operation: its controller is aborted, the task
\* is still pending, and the state is cleared.
C3_Witness ==
  /\ abortControllerRef # 0
  /\ abortControllerRef \in aborted
  /\ tasks[abortControllerRef].pc # "none"
  /\ sessionName = EmptyName /\ files = << >> /\ ~isProcessing
  /\ ~isPreviewOpen /\ compiledPdfBlob = NullBlob /\ uploadStatus = NoStatus

\* C4: at most one compile or submission is outstanding in every state.
C4_OneOutstanding == Cardinality(InFlight) <= 1

C6_CancelledSubmitNotice ==
  [][\A c \in Ctrl :
       (CancelledSubmit(c) /\ tasks'[c] # tasks[c]) =>
         /\ tasks'[c].pc = "none"
         /\ uploadStatus' = [type |-> "error", message |-> <<"Submission cancelled.">>]]_vars

\* A submission cancelled while response.text() was pending has settled.
C6_Witness ==
  /\ uploadStatus = SubmissionCancelled
  /\ abortControllerRef # 0 /\ abortControllerRef \in aborted
  /\ tasks[abortControllerRef].pc = "none"

\* C7: a submission that was not cancelled and whose response is ok ends
\* with the session name and file list empty, no artifact, the preview
\* closed, the processing flag false and a success notice.
C7_SuccessClearsSession ==
  [][\A c \in Ctrl :
       FetchOk(c) =>
         /\ sessionName' = EmptyName
         /\ files' = << >>
         /\ compiledPdfBlob' = NullBlob
         /\ isPreviewOpen' = FALSE
         /\ isProcessing' = FALSE
         /\ uploadStatus'.type = "success"
         /\ tasks'[c].pc = "none"]_vars

\* A submission has succeeded.
C7_Witness ==
  /\ uploadStatus = SuccessStatus
  /\ sessionName = EmptyName /\ files = << >>
  /\ compiledPdfBlob = NullBlob /\ ~isPreviewOpen /\ ~isProcessing
  /\ InFlight = {}

\* C8: when the read or the parse of a file fails in a compile that was not
\* cancelled, the compile ends there, stores no artifact and does not open
\* the preview, the status notice becomes an error, the processing flag
\* becomes false, and the file list and session name are unchanged, so that
\* the compile guard holds again whenever both are non-empty.
C8_FailureKeepsSession ==
  [][\A c \in Ctrl :
       (tasks[c].pc \in {"read", "load"} /\ c \notin aborted
          /\ tasks'[c].pc \notin {"read", "load", "copy"}) =>
         /\ tasks'[c].pc = "none"
         /\ compiledPdfBlob' = compiledPdfBlob
         /\ isPreviewOpen' = isPreviewOpen
         /\ uploadStatus'.type = "error"
         /\ isProcessing' = FALSE
         /\ files' = files
         /\ sessionName' = sessionName
         /\ ((sessionName' # EmptyName /\ Len(files') # 0) => CompileGuard')]_vars

\* A compile of two files has failed, without cancellation, and a new one
\* can be started.
C8_Witness ==
  /\ uploadStatus.type = "error"
  /\ uploadStatus.message[1] \in {"Failed to process files: ",
                                  "An unknown error occurred during file processing."}
  /\ InFlight = {}
  /\ abortControllerRef \notin aborted
  /\ Len(files) = 2
  /\ CompileGuard

\* C9: a compile request made while the session name is empty, or the file
\* list is empty, or the processing flag is set, changes nothing: no
\* controller is allocated, no task is started, and the processing flag, the
\* artifact, the preview and the status notice are unchanged.
C9_GuardedCompileIsNoOp ==
  [][(handleCompileAndReview
        /\ (sessionName = EmptyName \/ Len(files) = 0 \/ isProcessing)) =>
       UNCHANGED <<abortControllerRef, aborted, tasks, isProcessing,
                   compiledPdfBlob, isPreviewOpen, uploadStatus,
                   sessionName, files, console>>]_vars

\* The case of the specification: no session name, a file list that is not
\* empty, nothing in progress, and the compile request is accepted by the
\* handler as a no-op.
C9_Witness ==
  /\ sessionName = EmptyName /\ Len(files) > 0 /\ ~isProcessing
  /\ InFlight = {} /\ compiledPdfBlob = NullBlob /\ uploadStatus = NoStatus
  /\ ~CompileGuard
  /\ ENABLED handleCompileAndReview

\* C10: no two entries of the file list have the same name and size.
C10_NoDuplicates ==
  \A m, n \in 1..Len(files) : m # n => ~SameNameAndSize(files[m], files[n])

\* C11: when the endpoint answers a submission that was not cancelled with a
\* response that is not ok, and the body of the response is read, the status
\* notice becomes an error whose message carries the status code, the status
\* text and the body text; the processing flag is cleared, the session name,
\* the file list and the artifact are unchanged, and the submission has ended
\* with nothing started in its place.  Whatever ends a submission that holds
\* such a response and was not cancelled leaves an error notice and the same
\* session.
C11_NotOkResponseReported ==
  [][\A c \in Ctrl :
       /\ \A text \in BodyTexts :
            TextResolved(c, text) =>
              /\ uploadStatus' =
                   [type |-> "error",
                    message |-> <<"Upload failed: ", tasks[c].response[1].status,
                                  " ", tasks[c].response[1].statusText,
                                  ". ", text>>]
              /\ isProcessing' = FALSE
              /\ UNCHANGED <<sessionName, files, compiledPdfBlob, isPreviewOpen>>
              /\ InFlight' = InFlight \ {c}
       /\ (tasks[c].pc = "text" /\ c \notin aborted /\ tasks'[c].pc = "none") =>
              /\ uploadStatus'.type = "error"
              /\ isProcessing' = FALSE
              /\ UNCHANGED <<sessionName, files, compiledPdfBlob>>]_vars

\* The case of the specification: the 500 answer has been reported, nothing
\* is pending any more, and the session and the artifact are still there.
C11_Witness ==
  /\ uploadStatus = ErrorStatus(<<"Upload failed: ", "500", " ",
                                  "Internal Server Error", ". ", "oops">>)
  /\ ~isProcessing
  /\ InFlight = {}
  /\ sessionName # EmptyName
  /\ Len(files) > 0
  /\ ~compiledPdfBlob.null

\* C12 as the specification states it: a submission whose network call is
\* rejected by a transport failure, without a cancellation, ends with the
\* notice "Submission cancelled.".
C12_TransportFailureCancelled ==
  [][\A c \in Ctrl :
       (/\ tasks[c].pc = "fetch"
        /\ c \notin aborted
        /\ tasks'[c].pc = "none"
        /\ uploadStatus'.type = "error") =>
         uploadStatus' = [type |-> "error", message |-> <<"Submission cancelled.">>]]_vars

\* C12, amended: a submission whose network call is rejected by a transport
\* failure, without a cancellation, ends with an error notice that carries
\* the message of the rejection, which is not "Submission cancelled."; the
\* processing flag is cleared and the session name, the file list and the
\* artifact are unchanged.  The notice "Submission cancelled." appears only
\* when a submission whose signal was aborted ends.
C12_TransportFailureShowsMessage ==
  [][/\ \A c \in Ctrl :
          (/\ tasks[c].pc = "fetch"
           /\ c \notin aborted
           /\ tasks'[c].pc = "none"
           /\ uploadStatus'.type = "error") =>
            /\ \E m \in NetworkMessages :
                 uploadStatus' = [type |-> "error", message |-> <<m>>]
            /\ uploadStatus' # [type |-> "error", message |-> <<"Submission cancelled.">>]
            /\ isProcessing' = FALSE
            /\ UNCHANGED <<sessionName, files, compiledPdfBlob, isPreviewOpen>>
     /\ (/\ uploadStatus' = [type |-> "error", message |-> <<"Submission cancelled.">>]
         /\ uploadStatus' # uploadStatus) =>
           \E c \in Ctrl : CancelledSubmit(c) /\ tasks'[c].pc = "none"]_vars

\* The case of the amended claim: the transport failure has been reported
\* with no signal aborted, and the session and the artifact are still there.
C12_Witness ==
  /\ uploadStatus = ErrorStatus(<<"Failed to fetch">>)
  /\ ~isProcessing
  /\ InFlight = {}
  /\ aborted = {}
  /\ sessionName # EmptyName
  /\ ~compiledPdfBlob.null

\* C13: for the file list of every reachable state and every batch of
\* candidates, the add keeps every existing entry at its position and appends
\* after them, in arrival order, exactly the candidates whose (name, size)
\* pair is not the pair of an existing entry; in particular a single candidate
\* whose pair is present leaves the list as it is.
C13_AddKeepsExistingAppendsNew ==
  \A newFiles \in Batches(FileObjs, MaxBatch) :
    LET added == FilesAdded(files, newFiles)
        Present(c) == \E k \in 1..Len(files) :
                        /\ FileName(files[k]) = FileName(c)
                        /\ FileSize(files[k]) = FileSize(c)
        arrivals == {n \in 1..Len(newFiles) : ~Present(newFiles[n])}
        Arrival(j) == CHOOSE n \in arrivals :
                        Cardinality({m \in arrivals : m <= n}) = j
    IN /\ Len(added) = Len(files) + Cardinality(arrivals)
       /\ \A k \in 1..Len(files) : added[k] = files[k]
       /\ \A j \in 1..Cardinality(arrivals) :
            added[Len(files) + j] = newFiles[Arrival(j)]
       /\ (Len(newFiles) = 1 /\ Present(newFiles[1])) => added = files

\* The case of the specification: a list of two entries, a candidate that is
\* another File object with the name and size of an entry and is dropped, and
\* a batch whose first candidate is dropped and whose second is appended.
C13_Witness ==
  /\ Len(files) = 2
  /\ \E c, d \in FileObjs :
       /\ \A k \in 1..Len(files) : files[k] # c /\ files[k] # d
       /\ \E k \in 1..Len(files) : SameNameAndSize(files[k], c)
       /\ FilesAdded(files, <<c>>) = files
       /\ FilesAdded(files, <<c, d>>) = Append(files, d)

C15_MergeKeepsOrder ==
  [][\A c \in Ctrl :
       (tasks[c].pc = "save" /\ tasks'[c].pc = "none") =>
         LET input == tasks[c].files
             RECURSIVE Offset(_)
             Offset(j) == IF j = 1 THEN 0
                          ELSE Offset(j - 1) + PageCount(input[j - 1])
             output == compiledPdfBlob'.pages
         IN /\ ~compiledPdfBlob'.null
            /\ Len(output) = Offset(Len(input) + 1)
            /\ \A j \in 1..Len(input) : \A k \in 1..PageCount(input[j]) :
                 output[Offset(j) + k] = [doc |-> input[j], page |-> k]]_vars

\* The case of the specification: documents of 2, 3 and 1 pages compiled
\* into 6 pages, doc1.p1, doc1.p2, doc2.p1, doc2.p2, doc2.p3, doc3.p1.
C15_Witness ==
  /\ files = <<1, 2, 3>>
  /\ isPreviewOpen
  /\ compiledPdfBlob.pages =
       << [doc |-> 1, page |-> 1], [doc |-> 1, page |-> 2],
          [doc |-> 2, page |-> 1], [doc |-> 2, page |-> 2], [doc |-> 2, page |-> 3],
          [doc |-> 3, page |-> 1] >>

\* C16: when a submission starts, the file of its form data is named by the
\* session name in which every whitespace character that begins a run of
\* whitespace is replaced by '_', every other whitespace character is
\* dropped and every other character is kept, followed by "_compiled.pdf";
\* the sessionName field is the session name as it is, and the file is the
\* artifact.
C16_FileNameCollapsesWhitespace ==
  [][\A c \in Ctrl :
       (tasks[c].pc = "none" /\ tasks'[c].pc = "fetch") =>
         LET name == sessionName
             White(k) == name[k] \in {" ", "\t", "\n"}
             kept == {k \in 1..Len(name) : ~White(k) \/ k = 1 \/ ~White(k - 1)}
             Kept(j) == CHOOSE k \in kept : Cardinality({m \in kept : m <= k}) = j
             form == tasks'[c].formData[1]
         IN /\ form.sessionName = name
            /\ form.file = compiledPdfBlob
            /\ form.fileName =
                 [j \in 1..Cardinality(kept) |->
                    IF White(Kept(j)) THEN "_" ELSE name[Kept(j)]]
                 \o <<"_compiled.pdf">>]_vars

\* The case of the specification: a pending submission of a session whose
\* name has a run of two whitespace characters before a letter, sent under
\* the name "_Q_compiled.pdf".
C16_Witness ==
  \E c \in Ctrl :
    /\ tasks[c].pc = "fetch"
    /\ tasks[c].formData[1].sessionName = <<" ", "\t", "Q">>
    /\ tasks[c].formData[1].fileName = <<"_", "Q", "_compiled.pdf">>

\* C17: closing the preview drops the artifact and closes the preview, and
\* changes nothing else: the session name, the file list, the status notice,
\* the processing flag and the pending tasks are as before; when the session
\* name and the file list are not empty and nothing is in progress, the guard
\* of the compile handler passes in the state the close leaves.
C17_ClosePreviewKeepsSession ==
  [][handleClosePreview =>
       /\ compiledPdfBlob' = [null |-> TRUE, pages |-> << >>]
       /\ isPreviewOpen' = FALSE
       /\ UNCHANGED <<sessionName, files, uploadStatus, isProcessing,
                      tasks, aborted, abortControllerRef, console>>
       /\ (sessionName # << >> /\ Len(files) # 0 /\ ~isProcessing) =>
            (sessionName' # << >> /\ Len(files') # 0 /\ ~isProcessing')]_vars

\* The case of the specification: the preview was closed after a submission
\* failed; the notice of the failure, the session name and the file list are
\* still there, the artifact is gone, and a compile can be started.
C17_Witness ==
  /\ ~isPreviewOpen
  /\ compiledPdfBlob.null
  /\ uploadStatus.type = "error"
  /\ uploadStatus.message[1] = "Upload failed: "
  /\ InFlight = {}
  /\ CompileGuard

\* C19: at most one pending compile or submission has a signal that is not
\* aborted, and that one was started with the controller the ref holds, so
\* that a Reset reaches it; every other pending task has had its own signal
\* aborted.
C19_OneLiveSignal ==
  /\ Cardinality({c \in InFlight : c \notin aborted}) <= 1
  /\ \A c \in InFlight : c \notin aborted => abortControllerRef = c

\* The case of the claim: a cancelled task and a later task are pending
\* together, the signal of the first aborted and that of the second not.
C19_Witness ==
  \E c, d \in InFlight :
    /\ c # d
    /\ c \in aborted
    /\ d \notin aborted
    /\ abortControllerRef = d
    /\ isProcessing

\* C20: the preview is open exactly when there is an artifact.
C20_PreviewIffArtifact == isPreviewOpen <=> ~compiledPdfBlob.null

\* The case of the claim: a compile has saved its document, the artifact is
\* held and the preview is open on it.
C20_Witness ==
  /\ isPreviewOpen
  /\ ~compiledPdfBlob.null
  /\ Len(compiledPdfBlob.pages) > 0
  /\ ModalRendered

====
